---- MODULE Spec2Model ----
(***************************************************************************)
(* Model of the PODIOWriter module of Allpix Squared                       *)
(* (src/modules/PODIOWriter/PODIOWriterModule.{hpp,cpp}).                  *)
(*                                                                         *)
(* The module is driven by the framework through the life cycle            *)
(*   constructor -> initialize -> run(event)* -> finalize.                 *)
(* Each of the four methods is one action.  The files the module writes    *)
(* are modelled by their contents: eventFile is the sequence of records    *)
(* written by the podio writer, geometryFile the sequence of XML elements  *)
(* written by finalize.                                                    *)
(*                                                                         *)
(* Numbers: lengths and field components are integers standing for the     *)
(* framework's internal floating point values (1 = 0.001 internal unit).   *)
(* Units::convert(v, u) is kept as the pair of the value handed to it and  *)
(* the unit asked for.  Detector names are the integers 1..MaxDetectors;   *)
(* a geometry holds some of them, so a hit can name a detector that the    *)
(* geometry does not hold.                                                 *)
(***************************************************************************)
EXTENDS Integers, Sequences, FiniteSets, TLC

\* ------------------------------------------------------------------ bounds
MaxDetectors == 2
MaxEvents == 2
MaxMessages == 1

\* ------------------------------------------------------------ environment
DetectorNames == 1..MaxDetectors
Pixels == {<<10, 20>>}
FieldTypes == {"CONSTANT", "NONE", "CUSTOM"}
FieldVectors == {<<0, 0, 0>>, <<1, 2, 4>>}
OptionalKeys == {"output_collection_name", "detector_assignment"}
RequiredKeys == {"pixel_type", "detector_name", "dump_mc_truth", "geometry_file"}

\* The detector model attached to a detector: pixel grid, pitch, total size
\* and sensor size.  The sensor size differs from npixels * pitch so that
\* the two can be told apart in the geometry file.
ModelOf(name) ==
    IF name % 2 = 1
    THEN [type |-> "timepix", npixels |-> <<100, 100>>, pitch |-> <<50, 50>>,
          size |-> <<6000, 7000, 1300>>, sensor |-> <<5200, 5300, 300>>]
    ELSE [type |-> "mimosa26", npixels |-> <<4, 2>>, pitch |-> <<18, 25>>,
          size |-> <<100, 80, 70>>, sensor |-> <<75, 55, 50>>]

Detector(name) ==
    [name |-> name, position |-> <<0, 0, 50000 * (name - 1)>>,
     orientation |-> "identity", model |-> ModelOf(name)]

\* All sequences without repetition over S of length at most n
RECURSIVE InjectiveSeqs(_, _)
InjectiveSeqs(S, n) ==
    IF n = 0 THEN {<<>>}
    ELSE LET shorter == InjectiveSeqs(S, n - 1)
         IN  shorter \cup
             {Append(s, x) : s \in {t \in shorter : Len(t) = n - 1}, x \in S}

Range(s) == {s[i] : i \in DOMAIN s}

Geometries ==
    {s \in InjectiveSeqs(DetectorNames, MaxDetectors) :
        Cardinality(Range(s)) = Len(s)}

\* PixelHitMessage: the detector it belongs to and its pixel hits.  The
\* detector of a message need not be one of the geometry.
PixelHits == {[x |-> p[1], y |-> p[2]] : p \in Pixels}
HitSets == (SUBSET PixelHits) \ {{}}
PixelHitMessages ==
    {[detector |-> d, data |-> h] : d \in DetectorNames, h \in HitSets}
Batches ==
    {b \in SUBSET PixelHitMessages :
        /\ Cardinality(b) <= MaxMessages
        /\ \A m1, m2 \in b : m1.detector = m2.detector => m1 = m2}

VARIABLES
    config,                  \* keys present in the module configuration
    geo,                     \* GeometryManager: detectors and magnetic field
    phase,                   \* position in the module life cycle
    error,                   \* exception thrown by the last method, or "none"
    has_short_config,
    has_long_config,
    detector_names_to_id_,
    collection_names_vector_,
    geometry_file_name_,
    lcWriter_,
    writer_,
    event_store_,
    write_cnt_,
    eventFile,               \* records written by writer_
    geometry_file,           \* state of the std::ofstream of finalize
    geometryFile,            \* elements written to the GEAR geometry file
    log,                     \* LOG(...) lines
    runs                     \* history: the run(event) calls made so far

vars == <<config, geo, phase, error, has_short_config, has_long_config,
          detector_names_to_id_, collection_names_vector_,
          geometry_file_name_, lcWriter_, writer_, event_store_, write_cnt_,
          eventFile, geometry_file, geometryFile, log, runs>>

Init ==
    /\ config \in {RequiredKeys \cup k : k \in SUBSET OptionalKeys}
    /\ geo \in {[detectors |-> g, fieldType |-> t, field |-> f] :
                  g \in Geometries, t \in FieldTypes, f \in FieldVectors}
    /\ geo.fieldType = "NONE" => geo.field = <<0, 0, 0>>
    /\ geo.fieldType = "CUSTOM" => geo.field = <<1, 2, 4>>
    /\ phase = "unconstructed"
    /\ error = "none"
    /\ has_short_config = FALSE
    /\ has_long_config = FALSE
    /\ detector_names_to_id_ = <<>>
    /\ collection_names_vector_ = <<>>
    /\ geometry_file_name_ = ""
    /\ lcWriter_ = [state |-> "null", header |-> FALSE, closes |-> 0]
    /\ writer_ = [state |-> "null", closes |-> 0]
    /\ event_store_ = {}
    /\ write_cnt_ = 0
    /\ eventFile = <<>>
    /\ geometry_file = "unopened"
    /\ geometryFile = <<>>
    /\ log = <<>>
    /\ runs = <<>>

\* PODIOWriterModule::PODIOWriterModule
Construct ==
    /\ phase = "unconstructed"
    /\ config' = config \cup {"file_name"}
    /\ has_short_config' = ("output_collection_name" \in config)
    /\ has_long_config' = ("detector_assignment" \in config)
    /\ phase' = "constructed"
    /\ UNCHANGED <<geo, error, detector_names_to_id_, collection_names_vector_,
                   geometry_file_name_, lcWriter_, writer_, event_store_,
                   write_cnt_, eventFile, geometry_file, geometryFile, log,
                   runs>>

\* PODIOWriterModule::initialize
Initialize ==
    /\ phase = "constructed"
    /\ geometry_file_name_' = "geometry.xml"
    /\ lcWriter_' = [state |-> "open", header |-> TRUE, closes |-> 0]
    /\ event_store_' = {}
    /\ writer_' = [state |-> "open", closes |-> 0]
    /\ phase' = "initialized"
    /\ UNCHANGED <<config, geo, error, has_short_config, has_long_config,
                   detector_names_to_id_, collection_names_vector_, write_cnt_,
                   eventFile, geometry_file, geometryFile, log, runs>>

\* The collections run() allocates, one per configured collection name
OutputCollections ==
    [i \in 1..Len(collection_names_vector_) |->
        [name |-> collection_names_vector_[i], type |-> "TRACKERDATA",
         encoding |-> "gTrackerDataEncoding", elements |-> {}]]

\* The LCIO event object run() builds (and never hands to a writer)
LCEvent(event) ==
    [runNumber |-> 1, eventNumber |-> event.number, EventType |-> 2]

\* writer_->writeEvent(): one record holding what the event store holds.
\* 'call' is bookkeeping: the number of the event whose run() wrote it.
WriteEvent_skipEmptyBatch(event, batch) ==
    IF batch = {} THEN eventFile
    ELSE Append(eventFile, [call |-> event.number, data |-> event_store_])

WriteEvent(event, batch) ==
    Append(eventFile, [call |-> event.number, data |-> event_store_])

\* PODIOWriterModule::run
Run(batch) ==
    /\ phase = "initialized"
    /\ Len(runs) < MaxEvents
    /\ LET event == [number |-> Len(runs) + 1]
           pixel_messages == batch
           evt == LCEvent(event)
           output_col_vec == OutputCollections
       IN  /\ eventFile' = WriteEvent(event, pixel_messages)
           /\ event_store_' = {}
           /\ runs' = Append(runs, [number |-> event.number,
                                    batch |-> pixel_messages,
                                    registry |-> DOMAIN detector_names_to_id_,
                                    collections |-> Len(output_col_vec)])
    /\ UNCHANGED <<config, geo, phase, error, has_short_config,
                   has_long_config, detector_names_to_id_,
                   collection_names_vector_, geometry_file_name_, lcWriter_,
                   writer_, write_cnt_, geometry_file, geometryFile, log>>

\* Units::convert(value, unit) as called by finalize: the value and the unit
Convert(value, unit) == [value |-> value, unit |-> unit, literal |-> FALSE]

\* An attribute written as the text "0.0"
ZeroLiteral == [value |-> 0, unit |-> "none", literal |-> TRUE]

\* std::map::operator[]: a missing key is inserted with the value 0
MapIndex(map, key) ==
    LET inserted == [k \in DOMAIN map \cup {key} |->
                        IF k \in DOMAIN map THEN map[k] ELSE 0]
    IN  [map |-> inserted, value |-> inserted[key]]

\* The BField element of the geometry file
BFieldElement_fieldOfAnyType(fieldType, field) ==
    IF fieldType = "NONE"
    THEN [tag |-> "BField", type |-> "ConstantBField",
          x |-> ZeroLiteral, y |-> ZeroLiteral, z |-> ZeroLiteral]
    ELSE [tag |-> "BField", type |-> "ConstantBField",
          x |-> Convert(field[1], "T"), y |-> Convert(field[2], "T"),
          z |-> Convert(field[3], "T")]

BFieldElement(fieldType, field) ==
    IF fieldType = "CONSTANT"
    THEN [tag |-> "BField", type |-> "ConstantBField",
          x |-> Convert(field[1], "T"), y |-> Convert(field[2], "T"),
          z |-> Convert(field[3], "T")]
    ELSE [tag |-> "BField", type |-> "ConstantBField",
          x |-> ZeroLiteral, y |-> ZeroLiteral, z |-> ZeroLiteral]

\* The warning finalize logs for a field type it does not handle
BFieldLog(fieldType) ==
    IF fieldType \notin {"CONSTANT", "NONE"}
    THEN <<[level |-> "WARNING", text |-> "Field type not handled"]>>
    ELSE <<>>

\* getRotationAnglesFromMatrix(orientation)[i], negated and in degrees
RotationAngle(orientation, i) ==
    [angle |-> i, of |-> orientation, negated |-> TRUE, unit |-> "deg"]

\* The ladder element of a layer
LadderRecord_radLength9465(detector, id) ==
    [ID |-> id,
     positionX |-> Convert(detector.position[1], "mm"),
     positionY |-> Convert(detector.position[2], "mm"),
     positionZ |-> Convert(detector.position[3], "mm"),
     rotationZY |-> RotationAngle(detector.orientation, 0),
     rotationZX |-> RotationAngle(detector.orientation, 1),
     rotationXY |-> RotationAngle(detector.orientation, 2),
     sizeX |-> Convert(detector.model.size[1], "mm"),
     sizeY |-> Convert(detector.model.size[2], "mm"),
     thickness |-> Convert(detector.model.size[3], "mm"),
     radLength |-> "94.65"]

LadderRecord(detector, id) ==
    [ID |-> id,
     positionX |-> Convert(detector.position[1], "mm"),
     positionY |-> Convert(detector.position[2], "mm"),
     positionZ |-> Convert(detector.position[3], "mm"),
     rotationZY |-> RotationAngle(detector.orientation, 0),
     rotationZX |-> RotationAngle(detector.orientation, 1),
     rotationXY |-> RotationAngle(detector.orientation, 2),
     sizeX |-> Convert(detector.model.size[1], "mm"),
     sizeY |-> Convert(detector.model.size[2], "mm"),
     thickness |-> Convert(detector.model.size[3], "mm"),
     radLength |-> "93.65"]

\* The sensitive element of a layer
SensitiveRecord_sensorSize(detector, id) ==
    [ID |-> id,
     positionX |-> Convert(detector.position[1], "mm"),
     positionY |-> Convert(detector.position[2], "mm"),
     positionZ |-> Convert(detector.position[3], "mm"),
     sizeX |-> Convert(detector.model.sensor[1], "mm"),
     sizeY |-> Convert(detector.model.sensor[2], "mm"),
     thickness |-> Convert(detector.model.sensor[3], "mm"),
     npixelX |-> detector.model.npixels[1],
     npixelY |-> detector.model.npixels[2],
     pitchX |-> Convert(detector.model.pitch[1], "mm"),
     pitchY |-> Convert(detector.model.pitch[2], "mm"),
     resolution |-> [pitch |-> detector.model.pitch[1], over |-> "sqrt(12)",
                     unit |-> "mm"],
     rotation |-> <<"1.0", "0.0", "0.0", "1.0">>,
     radLength |-> "93.65"]

SensitiveRecord(detector, id) ==
    [ID |-> id,
     positionX |-> Convert(detector.position[1], "mm"),
     positionY |-> Convert(detector.position[2], "mm"),
     positionZ |-> Convert(detector.position[3], "mm"),
     sizeX |-> Convert(detector.model.npixels[1] * detector.model.pitch[1], "mm"),
     sizeY |-> Convert(detector.model.npixels[2] * detector.model.pitch[2], "mm"),
     thickness |-> Convert(detector.model.sensor[3], "mm"),
     npixelX |-> detector.model.npixels[1],
     npixelY |-> detector.model.npixels[2],
     pitchX |-> Convert(detector.model.pitch[1], "mm"),
     pitchY |-> Convert(detector.model.pitch[2], "mm"),
     resolution |-> [pitch |-> detector.model.pitch[1], over |-> "sqrt(12)",
                     unit |-> "mm"],
     rotation |-> <<"1.0", "0.0", "0.0", "1.0">>,
     radLength |-> "93.65"]

\* The loop over the detectors: one layer element per detector, in the
\* order of getDetectors(); both IDs are read with operator[] from the map.
RECURSIVE WriteLayers(_, _, _)
WriteLayers(detectors, map, file) ==
    IF detectors = <<>> THEN [file |-> file, map |-> map]
    ELSE LET detector == Detector(Head(detectors))
             ladderId == MapIndex(map, detector.name)
             sensitiveId == MapIndex(ladderId.map, detector.name)
             layer == [tag |-> "layer",
                       name |-> detector.name,
                       type |-> detector.model.type,
                       ladder |-> LadderRecord(detector, ladderId.value),
                       sensitive |-> SensitiveRecord(detector, sensitiveId.value)]
         IN  WriteLayers(Tail(detectors), sensitiveId.map, Append(file, layer))

\* The geometry part of finalize.  'good' is the state of the stream after
\* it was opened for truncating write.
WriteGeometry_ignoreOpenFailure(good) ==
    LET detectors == geo.detectors
        prolog == <<[tag |-> "xml"], [tag |-> "xml-stylesheet"],
                    [tag |-> "gear"],
                    [tag |-> "global", detectorName |-> "detector_name"],
                    BFieldElement(geo.fieldType, geo.field),
                    [tag |-> "detectors"],
                    [tag |-> "detector", name |-> "SiPlanes"],
                    [tag |-> "siplanesType", type |-> "TelescopeWithoutDUT"],
                    [tag |-> "siplanesNumber", number |-> Len(detectors)],
                    [tag |-> "siplanesID", ID |-> 0],
                    [tag |-> "layers"]>>
        layers == WriteLayers(detectors, detector_names_to_id_, prolog)
    IN  [file |-> layers.file \o <<[tag |-> "/layers"], [tag |-> "/detector"],
                                   [tag |-> "/detectors"], [tag |-> "/gear"]>>,
         map |-> layers.map,
         log |-> BFieldLog(geo.fieldType) \o
                 <<[level |-> "STATUS", text |-> "Wrote GEAR geometry to file"]>>,
         error |-> "none"]

WriteGeometry(good) ==
    IF geometry_file_name_ = ""
    THEN [file |-> geometryFile, map |-> detector_names_to_id_,
          log |-> <<>>, error |-> "none"]
    ELSE IF ~good
    THEN [file |-> <<>>, map |-> detector_names_to_id_, log |-> <<>>,
          error |-> "ModuleError"]
    ELSE
    LET detectors == geo.detectors
        prolog == <<[tag |-> "xml"], [tag |-> "xml-stylesheet"],
                    [tag |-> "gear"],
                    [tag |-> "global", detectorName |-> "detector_name"],
                    BFieldElement(geo.fieldType, geo.field),
                    [tag |-> "detectors"],
                    [tag |-> "detector", name |-> "SiPlanes"],
                    [tag |-> "siplanesType", type |-> "TelescopeWithoutDUT"],
                    [tag |-> "siplanesNumber", number |-> Len(detectors)],
                    [tag |-> "siplanesID", ID |-> 0],
                    [tag |-> "layers"]>>
        layers == WriteLayers(detectors, detector_names_to_id_, prolog)
    IN  [file |-> layers.file \o <<[tag |-> "/layers"], [tag |-> "/detector"],
                                   [tag |-> "/detectors"], [tag |-> "/gear"]>>,
         map |-> layers.map,
         log |-> BFieldLog(geo.fieldType) \o
                 <<[level |-> "STATUS", text |-> "Wrote GEAR geometry to file"]>>,
         error |-> "none"]

\* PODIOWriterModule::finalize
Finalize(good) ==
    /\ phase = "initialized"
    /\ lcWriter_' = [lcWriter_ EXCEPT !.state = "closed", !.closes = @ + 1]
    /\ geometry_file' = IF geometry_file_name_ = "" THEN "unopened"
                        ELSE IF good THEN "good" ELSE "fail"
    /\ LET written == WriteGeometry(good)
       IN  /\ geometryFile' = written.file
           /\ detector_names_to_id_' = written.map
           /\ log' = log \o <<[level |-> "STATUS", text |-> "Wrote events to file",
                               count |-> write_cnt_]>> \o written.log
           /\ error' = written.error
           /\ phase' = IF written.error = "none" THEN "finalized" ELSE "failed"
    /\ UNCHANGED <<config, geo, has_short_config, has_long_config,
                   collection_names_vector_, geometry_file_name_, writer_,
                   event_store_, write_cnt_, eventFile, runs>>

Next ==
    \/ Construct
    \/ Initialize
    \/ \E batch \in Batches : Run(batch)
    \/ \E good \in BOOLEAN : Finalize(good)

Spec == Init /\ [][Next]_vars

\* ------------------------------------------------------------ properties
Layers == SelectSeq(geometryFile, LAMBDA e : e.tag = "layer")
BFields == SelectSeq(geometryFile, LAMBDA e : e.tag = "BField")
Logged(level, text) ==
    \E i \in DOMAIN log : log[i].level = level /\ log[i].text = text

\* C1: when the configuration holds both output_collection_name and
\* detector_assignment, the module is rejected with a configuration error:
\* no run(event) call is executed and no event record is written.
C1_BothModesRejected ==
    ({"output_collection_name", "detector_assignment"} \subseteq config)
        => /\ phase \in {"unconstructed", "constructed", "config_error"}
           /\ runs = <<>>
           /\ eventFile = <<>>

\* C2: every run(event) call appends exactly one record to the event store
\* file, also for an empty batch, and leaves the in-memory store empty: the
\* file holds one record per call, in call order, and no record or store
\* holds data of an earlier event.
C2_OneRecordPerRun ==
    /\ Len(eventFile) = Len(runs)
    /\ \A i \in DOMAIN runs : eventFile[i].call = runs[i].number
    /\ \A i \in DOMAIN eventFile : eventFile[i].data = {}
    /\ event_store_ = {}

C2_Witness ==
    /\ Len(runs) >= 2
    /\ \E i \in DOMAIN runs : runs[i].batch = {}
    /\ \E i \in DOMAIN runs : runs[i].batch # {}

\* C3: for every pixel hit of the batch fetched by run(event), the record
\* written for that event holds an entry for the hit's detector, pixel x and
\* pixel y.
C3_HitsEncoded ==
    \A i \in DOMAIN runs : \A m \in runs[i].batch : \A h \in m.data :
        /\ i \in DOMAIN eventFile
        /\ \E e \in eventFile[i].data :
              e.detector = m.detector /\ e.x = h.x /\ e.y = h.y

\* C4: a run(event) call that receives a hit of a detector absent from the
\* detector-ID registry (and from the geometry the registry is built from)
\* aborts with a fatal error and writes no record for that event.
C4_UnknownDetectorFatal ==
    \A i \in DOMAIN runs :
        (\E m \in runs[i].batch :
            /\ m.detector \notin runs[i].registry
            /\ m.detector \notin Range(geo.detectors))
            => /\ error # "none"
               /\ \A j \in DOMAIN eventFile : eventFile[j].call # runs[i].number

\* C5: the detector-ID registry finalize uses maps the N detectors of the
\* geometry to N distinct non-negative integers; the ladder ID and the
\* sensitive ID of a layer are equal and no two layers carry the same ID.
C5_RegistryBijective ==
    phase = "finalized" =>
        /\ \A n \in Range(geo.detectors) :
              n \in DOMAIN detector_names_to_id_ /\ detector_names_to_id_[n] >= 0
        /\ \A n1, n2 \in Range(geo.detectors) :
              n1 # n2 => detector_names_to_id_[n1] # detector_names_to_id_[n2]
        /\ \A i \in DOMAIN Layers : Layers[i].ladder.ID = Layers[i].sensitive.ID
        /\ \A i, j \in DOMAIN Layers :
              i # j => Layers[i].ladder.ID # Layers[j].ladder.ID

\* C6: every writer opened by initialize (the event-file writer and the
\* event-store writer) has been closed exactly once when finalize returns,
\* and none is ever closed twice.
C6_WritersReleasedOnce ==
    /\ lcWriter_.closes <= 1
    /\ writer_.closes <= 1
    /\ phase = "finalized" =>
          /\ lcWriter_.state = "closed" /\ lcWriter_.closes = 1
          /\ writer_.state = "closed" /\ writer_.closes = 1

\* C7: once finalize has opened the geometry file, it completes whatever the
\* magnetic field type is, and the file holds exactly one BField element of
\* type ConstantBField directly followed by the complete detectors section:
\* the three field components for CONSTANT, a zero vector without a warning
\* for NONE, a zero vector with a logged warning for any other type.
C7_FieldFallback ==
    geometry_file = "good" =>
        /\ phase = "finalized" /\ error = "none"
        /\ Len(BFields) = 1
        /\ BFields[1].type = "ConstantBField"
        /\ geo.fieldType = "CONSTANT" =>
              /\ BFields[1].x = Convert(geo.field[1], "T")
              /\ BFields[1].y = Convert(geo.field[2], "T")
              /\ BFields[1].z = Convert(geo.field[3], "T")
              /\ ~Logged("WARNING", "Field type not handled")
        /\ geo.fieldType = "NONE" =>
              /\ BFields[1].x = ZeroLiteral
              /\ BFields[1].y = ZeroLiteral
              /\ BFields[1].z = ZeroLiteral
              /\ ~Logged("WARNING", "Field type not handled")
        /\ geo.fieldType \notin {"CONSTANT", "NONE"} =>
              /\ BFields[1].x = ZeroLiteral
              /\ BFields[1].y = ZeroLiteral
              /\ BFields[1].z = ZeroLiteral
              /\ Logged("WARNING", "Field type not handled")
        /\ \E i \in DOMAIN geometryFile :
              /\ geometryFile[i].tag = "BField"
              /\ Len(geometryFile) = i + 6 + Len(geo.detectors) + 4
              /\ geometryFile[i + 1].tag = "detectors"
              /\ geometryFile[i + 4].tag = "siplanesNumber"
              /\ geometryFile[i + 4].number = Len(geo.detectors)
              /\ geometryFile[i + 6].tag = "layers"
              /\ \A k \in 1..Len(geo.detectors) :
                    /\ geometryFile[i + 6 + k].tag = "layer"
                    /\ geometryFile[i + 6 + k].name = geo.detectors[k]
              /\ geometryFile[Len(geometryFile) - 3].tag = "/layers"
              /\ geometryFile[Len(geometryFile) - 1].tag = "/detectors"

C7_Witness ==
    /\ phase = "finalized"
    /\ geo.fieldType = "CUSTOM"
    /\ Len(geo.detectors) >= 1
    /\ Logged("WARNING", "Field type not handled")

\* C8: when the geometry file cannot be opened, finalize fails with a
\* ModuleError and writes no geometry content: no element is in the file
\* and the status line of the geometry is not logged.
C8_OpenFailureFatal ==
    geometry_file = "fail" =>
        /\ phase = "failed"
        /\ error = "ModuleError"
        /\ geometryFile = <<>>
        /\ ~Logged("STATUS", "Wrote GEAR geometry to file")

C8_Witness ==
    /\ geometry_file = "fail"
    /\ Len(geo.detectors) >= 1
    /\ Len(runs) >= 1

\* C9: the sensitive element of every layer has sizeX = npixelX * pitchX and
\* sizeY = npixelY * pitchY and the z extent of the sensor size as
\* thickness; the ladder element has the x, y and z extent of the total
\* size of the model.
C9_SensitiveFromPixelGrid ==
    \A i \in DOMAIN Layers :
        LET model == Detector(geo.detectors[i]).model
            sensitive == Layers[i].sensitive
            ladder == Layers[i].ladder
        IN  /\ Layers[i].name = geo.detectors[i]
            /\ sensitive.sizeX.value = sensitive.npixelX * sensitive.pitchX.value
            /\ sensitive.sizeY.value = sensitive.npixelY * sensitive.pitchY.value
            /\ sensitive.sizeX.value = model.npixels[1] * model.pitch[1]
            /\ sensitive.sizeY.value = model.npixels[2] * model.pitch[2]
            /\ sensitive.thickness.value = model.sensor[3]
            /\ ladder.sizeX.value = model.size[1]
            /\ ladder.sizeY.value = model.size[2]
            /\ ladder.thickness.value = model.size[3]
            /\ \A a \in {sensitive.sizeX, sensitive.sizeY, sensitive.thickness,
                         ladder.sizeX, ladder.sizeY, ladder.thickness} :
                  a.unit = "mm"

C9_Witness ==
    /\ phase = "finalized"
    /\ Len(Layers) >= 2
    /\ \E i \in DOMAIN Layers :
          LET model == Detector(Layers[i].name).model
          IN  /\ model.sensor[1] # model.npixels[1] * model.pitch[1]
              /\ model.sensor[3] # model.size[3]

\* C10 as stated: every ladder element carries radLength 94.65.
C10_RadLength9465 ==
    \A i \in DOMAIN Layers : Layers[i].ladder.radLength = "94.65"

\* C10 amended: every ladder element carries the fixed radLength 93.65,
\* whatever the detector.
C10_RadLength9365 ==
    \A i \in DOMAIN Layers : Layers[i].ladder.radLength = "93.65"

C10_Witness ==
    /\ phase = "finalized"
    /\ Len(Layers) >= 1
    /\ \E i, j \in DOMAIN Layers : Layers[i].type # Layers[j].type
====
